---- MODULE Spec2Model ----
(***************************************************************************)
(* Model of src/edit_content_prompt.py: editor-type normalization,         *)
(* selection of prompt fragments and assembly of the editor system prompt. *)
(*                                                                         *)
(* Text that the program only compares or concatenates is modelled as a    *)
(* sequence of one-character strings (editor-type identifiers, so that     *)
(* lower() and strip() are computed character by character) or as a        *)
(* sequence of block names (the prompt: every literal block of the source  *)
(* is one name, concatenation is \o, the empty string is << >>).           *)
(***************************************************************************)
EXTENDS Integers, Sequences, FiniteSets, TLC

VARIABLES
    pc,               \* position of each invocation
    top,              \* the function the caller invoked
    caller_types,     \* the editor_types object the caller passed
    editor_types,     \* local editor_types (rebound by the builder to a list)
    is_improvement,   \* argument is_improvement
    editor_index,     \* argument editor_index
    editor_prompts,   \* the catalog dict: local of the builder, argument of the collector
    base_prompt,      \* local base_prompt
    pos,              \* position of the for loop in editor_types (1-based)
    selected,         \* local selected of _collect_selected_prompts
    seen_types,       \* local seen_types of _collect_selected_prompts
    selected_prompts, \* local selected_prompts of the builder
    final_prompt,     \* local final_prompt
    editor_type,      \* argument of _normalize_editor_type / loop variable
    ret               \* the value returned to the caller

vars == << pc, top, caller_types, editor_types, is_improvement, editor_index, editor_prompts,
           base_prompt, pos, selected, seen_types, selected_prompts,
           final_prompt, editor_type, ret >>

----------------------------------------------------------------------------
(* Bounds of the model *)

\* longest editor_types list handed to build_editor_system_prompt
MaxTypes == 3
\* longest editor_types list handed to _collect_selected_prompts directly
MaxCollect == 3
\* longest run of whitespace put before or after a word
MaxPad == 1
\* largest editor_index
MaxIndex == 2

----------------------------------------------------------------------------
(* Python values: one record shape for every value the functions may meet *)

PyNone == [kind |-> "NoneType", chars |-> << >>, num |-> 0, items |-> << >>]
PyStr(s) == [kind |-> "str", chars |-> s, num |-> 0, items |-> << >>]
PyInt(n) == [kind |-> "int", chars |-> << >>, num |-> n, items |-> << >>]
PyBool(b) == [kind |-> "bool", chars |-> << >>, num |-> IF b THEN 1 ELSE 0, items |-> << >>]
PyList(xs) == [kind |-> "list", chars |-> << >>, num |-> 0, items |-> xs]
PyDict(xs) == [kind |-> "dict", chars |-> << >>, num |-> 0, items |-> xs]
PyObject == [kind |-> "object", chars |-> << >>, num |-> 0, items |-> << >>]
\* an exception propagating out of an expression
PyRaise(e) == [kind |-> "raise", chars |-> << >>, num |-> 0, items |-> << e >>]

IsRaise(v) == v.kind = "raise"

\* bool(v): the truth test of `if not editor_type` and `if editor_types`
Truthy(v) ==
    CASE v.kind = "NoneType" -> FALSE
      [] v.kind = "str" -> v.chars # << >>
      [] v.kind \in {"int", "bool"} -> v.num # 0
      [] v.kind \in {"list", "dict"} -> v.items # << >>
      [] OTHER -> TRUE

\* isinstance(v, str)
isinstance_str(v) == v.kind = "str"

----------------------------------------------------------------------------
(* str.lower() and str.strip() *)

UpperLetters == << "A", "B", "C", "D", "E", "F", "G", "H", "I", "J", "K", "L", "M",
                   "N", "O", "P", "Q", "R", "S", "T", "U", "V", "W", "X", "Y", "Z" >>
LowerLetters == << "a", "b", "c", "d", "e", "f", "g", "h", "i", "j", "k", "l", "m",
                   "n", "o", "p", "q", "r", "s", "t", "u", "v", "w", "x", "y", "z" >>

\* the characters str.strip() removes (ASCII whitespace)
Whitespace == { " ", "\t", "\n", "\r", "\f" }

CharLower(c) ==
    IF \E i \in DOMAIN UpperLetters : UpperLetters[i] = c
    THEN LowerLetters[CHOOSE i \in DOMAIN UpperLetters : UpperLetters[i] = c]
    ELSE c

CharUpper(c) ==
    IF \E i \in DOMAIN LowerLetters : LowerLetters[i] = c
    THEN UpperLetters[CHOOSE i \in DOMAIN LowerLetters : LowerLetters[i] = c]
    ELSE c

RECURSIVE LStrip(_)
LStrip(s) ==
    IF s # << >> /\ Head(s) \in Whitespace THEN LStrip(Tail(s)) ELSE s

RECURSIVE RStrip(_)
RStrip(s) ==
    IF s # << >> /\ s[Len(s)] \in Whitespace
    THEN RStrip(SubSeq(s, 1, Len(s) - 1))
    ELSE s

\* v.lower(): AttributeError on a value that is no str
str_lower(v) ==
    IF v.kind = "str"
    THEN PyStr([i \in DOMAIN v.chars |-> CharLower(v.chars[i])])
    ELSE PyRaise("AttributeError")

\* v.strip(): AttributeError on a value that is no str
str_strip(v) ==
    IF v.kind = "str"
    THEN PyStr(RStrip(LStrip(v.chars)))
    ELSE IF IsRaise(v) THEN v ELSE PyRaise("AttributeError")

----------------------------------------------------------------------------
(* The five editor types *)

development == << "d", "e", "v", "e", "l", "o", "p", "m", "e", "n", "t" >>
content == << "c", "o", "n", "t", "e", "n", "t" >>
line == << "l", "i", "n", "e" >>
copy == << "c", "o", "p", "y" >>
brand_alignment == << "b", "r", "a", "n", "d", "-", "a", "l", "i", "g", "n", "m", "e", "n", "t" >>

valid_types == { development, content, line, copy, brand_alignment }

\* _normalize_editor_type without its isinstance guard
NormalizeNoTypeCheck(value) ==
    IF ~Truthy(value) THEN PyNone
    ELSE LET normalized == str_strip(str_lower(value))
         IN  IF IsRaise(normalized) THEN normalized
             ELSE IF normalized.chars \in valid_types THEN normalized ELSE PyNone

\* _normalize_editor_type that forgets to trim
NormalizeNoStrip(value) ==
    IF ~Truthy(value) THEN PyNone
    ELSE IF ~isinstance_str(value) THEN PyNone
    ELSE LET normalized == str_lower(value)
         IN  IF normalized.chars \in valid_types THEN normalized ELSE PyNone

\* _normalize_editor_type that matches a prefix of the trimmed text
NormalizePrefix(value) ==
    IF ~Truthy(value) THEN PyNone
    ELSE IF ~isinstance_str(value) THEN PyNone
    ELSE LET normalized == str_strip(str_lower(value))
             hits == { t \in valid_types :
                         /\ Len(t) <= Len(normalized.chars)
                         /\ SubSeq(normalized.chars, 1, Len(t)) = t }
         IN  IF hits # {} THEN PyStr(CHOOSE t \in hits : TRUE) ELSE PyNone

_normalize_editor_type(value) ==
    IF ~Truthy(value) THEN PyNone
    ELSE IF ~isinstance_str(value) THEN PyNone
    ELSE LET normalized == str_strip(str_lower(value))
         IN  IF normalized.chars \in valid_types THEN normalized ELSE PyNone

----------------------------------------------------------------------------
(* The literal blocks of the prompt *)

\* improvement_context that leaves a placeholder when the flag is unset
ImprovementContextPlaceholder(is_imp) ==
    IF is_imp THEN << "IMPROVEMENT_ITERATION_CONTEXT" >> ELSE << "NO_IMPROVEMENT_CONTEXT" >>

\* improvement_context: the block, or the empty string
improvement_context(is_imp) ==
    IF is_imp THEN << "IMPROVEMENT_ITERATION_CONTEXT" >> ELSE << >>

\* sequential_context tested with editor_index >= 0
SequentialContextFromZero(index) ==
    IF index >= 0 THEN << "SEQUENTIAL_PROCESSING_CONTEXT" >> ELSE << >>

\* the block for every editor_index but zero
SequentialContextNonZero(index) ==
    IF index # 0 THEN << "SEQUENTIAL_PROCESSING_CONTEXT" >> ELSE << >>

\* sequential_context: the block, or the empty string
sequential_context(index) ==
    IF index > 0 THEN << "SEQUENTIAL_PROCESSING_CONTEXT" >> ELSE << >>

processing_requirements == << "PROCESSING_REQUIREMENTS" >>

structure_preservation == << "STRUCTURE_AND_TITLE_PRESERVATION" >>

\* an inline {"STEP na (IMPROVEMENT): ..." if is_improvement else ""} of the f-string
\* only the first step carries its note
StepNoteOnlyFirst(is_imp, note) ==
    IF is_imp /\ note = "STEP_1a" THEN << note >> ELSE << >>

StepNote(is_imp, note) == IF is_imp THEN << note >> ELSE << >>

\* base_prompt with the sequential-processing block before the improvement block
BasePromptSequentialFirst(is_imp, index) ==
    << "INTRODUCTION" >>
    \o sequential_context(index) \o improvement_context(is_imp)
    \o processing_requirements \o structure_preservation
    \o << "PROCESSING_STEPS", "STEP_1" >> \o StepNote(is_imp, "STEP_1a")
    \o << "STEP_2" >> \o StepNote(is_imp, "STEP_2a")
    \o << "STEP_3" >> \o StepNote(is_imp, "STEP_3a")
    \o << "STEP_4" >> \o StepNote(is_imp, "STEP_4a")
    \o << "STEP_5" >> \o StepNote(is_imp, "STEP_5a")
    \o << "OUTPUT_FORMAT", "EDITORIAL_GUIDELINES" >>

\* the f-string of base_prompt
BasePrompt(is_imp, index) ==
    << "INTRODUCTION" >>
    \o improvement_context(is_imp) \o sequential_context(index)
    \o processing_requirements \o structure_preservation
    \o << "PROCESSING_STEPS", "STEP_1" >> \o StepNote(is_imp, "STEP_1a")
    \o << "STEP_2" >> \o StepNote(is_imp, "STEP_2a")
    \o << "STEP_3" >> \o StepNote(is_imp, "STEP_3a")
    \o << "STEP_4" >> \o StepNote(is_imp, "STEP_4a")
    \o << "STEP_5" >> \o StepNote(is_imp, "STEP_5a")
    \o << "OUTPUT_FORMAT", "EDITORIAL_GUIDELINES" >>

\* the dict literal editor_prompts: editor type -> fragment
EditorPrompts ==
    [k \in valid_types |->
        CASE k = brand_alignment -> "BRAND_ALIGNMENT_EDITOR"
          [] k = copy -> "COPY_EDITOR"
          [] k = line -> "LINE_EDITOR"
          [] k = content -> "CONTENT_EDITOR"
          [] k = development -> "DEVELOPMENT_EDITOR"]

Fragments == { EditorPrompts[k] : k \in DOMAIN EditorPrompts }

\* the catalog order, used in place of the fallback order
EditorOrderCatalog == << development, content, line, copy, brand_alignment >>

\* the list literal editor_order of the fallback
editor_order == << brand_alignment, copy, line, content, development >>

\* "\n".join(parts)
RECURSIVE Join(_)
Join(parts) ==
    IF parts = << >> THEN << >>
    ELSE IF Len(parts) = 1 THEN << parts[1] >>
    ELSE << parts[1], "\n" >> \o Join(Tail(parts))

ImprovementChecks ==
    << "CHECK_IMPROVEMENT_APPLIED", "CHECK_PREVIOUS_EDITS_PRESERVED",
       "CHECK_ONLY_REQUESTED_CHANGES", "CHECK_STRUCTURE_MAINTAINED" >>

BaseChecks ==
    << "CHECK_FEEDBACK_ADDRESSED", "CHECK_RULES_APPLIED", "CHECK_VOICE_PRESERVED",
       "CHECK_OUTPUT_FORMAT", "CHECK_ZERO_NOTES", "CHECK_CLEAN_DOCUMENT",
       "CHECK_MARKDOWN_LENGTH" >>

\* validation_section whose improvement checks replace the base checks
ValidationImprovementInstead(is_imp) ==
    << "VALIDATION" >> \o (IF is_imp THEN ImprovementChecks ELSE BaseChecks)

\* validation_section that always holds the improvement checks
ValidationAlwaysImprovement(is_imp) ==
    << "VALIDATION" >> \o ImprovementChecks \o BaseChecks

\* validation_section after both +=
ValidationSection(is_imp) ==
    << "VALIDATION" >> \o (IF is_imp THEN ImprovementChecks ELSE << >>) \o BaseChecks

----------------------------------------------------------------------------
(* Selection *)

\* one iteration of the for loop that forgets seen_types
LoopBodyNoDedup(entry, catalog, sel, seen) ==
    LET normalized == _normalize_editor_type(entry)
    IN  IF IsRaise(normalized)
        THEN [raised |-> TRUE, selected |-> sel, seen_types |-> seen]
        ELSE IF Truthy(normalized) /\ normalized.chars \in DOMAIN catalog
        THEN [raised |-> FALSE,
              selected |-> Append(sel, catalog[normalized.chars]),
              seen_types |-> seen \cup { normalized.chars }]
        ELSE [raised |-> FALSE, selected |-> sel, seen_types |-> seen]

\* one iteration of the for loop that prepends instead of appending
LoopBodyPrepend(entry, catalog, sel, seen) ==
    LET normalized == _normalize_editor_type(entry)
    IN  IF IsRaise(normalized)
        THEN [raised |-> TRUE, selected |-> sel, seen_types |-> seen]
        ELSE IF /\ Truthy(normalized)
                /\ normalized.chars \in DOMAIN catalog
                /\ normalized.chars \notin seen
        THEN [raised |-> FALSE,
              selected |-> << catalog[normalized.chars] >> \o sel,
              seen_types |-> seen \cup { normalized.chars }]
        ELSE [raised |-> FALSE, selected |-> sel, seen_types |-> seen]

\* one iteration of the for loop: the new selected and seen_types
\* the body that adds every normalized type to seen_types, selected or not
LoopBodySeenAll(entry, catalog, sel, seen) ==
    LET normalized == _normalize_editor_type(entry)
    IN  IF Truthy(normalized) /\ normalized.chars \notin seen
        THEN [raised |-> FALSE,
              selected |-> IF normalized.chars \in DOMAIN catalog
                           THEN Append(sel, catalog[normalized.chars]) ELSE sel,
              seen_types |-> seen \cup { normalized.chars }]
        ELSE [raised |-> FALSE, selected |-> sel, seen_types |-> seen]

LoopBody(entry, catalog, sel, seen) ==
    LET normalized == _normalize_editor_type(entry)
    IN  IF IsRaise(normalized)
        THEN [raised |-> TRUE, selected |-> sel, seen_types |-> seen]
        ELSE IF /\ Truthy(normalized)
                /\ normalized.chars \in DOMAIN catalog
                /\ normalized.chars \notin seen
        THEN [raised |-> FALSE,
              selected |-> Append(sel, catalog[normalized.chars]),
              seen_types |-> seen \cup { normalized.chars }]
        ELSE [raised |-> FALSE, selected |-> sel, seen_types |-> seen]

\* the for loop from position i on
RECURSIVE CollectFrom(_, _, _, _, _)
CollectFrom(items, catalog, i, sel, seen) ==
    IF i > Len(items) THEN PyList(sel)
    ELSE LET r == LoopBody(items[i], catalog, sel, seen)
         IN  IF r.raised THEN PyRaise("AttributeError")
             ELSE CollectFrom(items, catalog, i + 1, r.selected, r.seen_types)

\* _collect_selected_prompts as a function of its two arguments
_collect_selected_prompts(items, catalog) == CollectFrom(items, catalog, 1, << >>, {})

\* list(x) of `list(editor_types) if editor_types else []`
\* a string taken as a list of one entry
ToPyListWrapString(x) ==
    IF ~Truthy(x) THEN PyList(<< >>)
    ELSE IF x.kind = "list" THEN PyList(x.items)
    ELSE IF x.kind = "str" THEN PyList(<< x >>)
    ELSE PyRaise("TypeError")

ToPyList(x) ==
    IF ~Truthy(x) THEN PyList(<< >>)
    ELSE IF x.kind = "list" THEN PyList(x.items)
    ELSE IF x.kind = "str" THEN PyList([i \in DOMAIN x.chars |-> PyStr(<< x.chars[i] >>)])
    ELSE PyRaise("TypeError")

RECURSIVE FallbackFrom(_, _, _)
FallbackFrom(order, catalog, i) ==
    IF i > Len(order) THEN << >>
    ELSE (IF order[i] \in DOMAIN catalog THEN << catalog[order[i]] >> ELSE << >>)
         \o FallbackFrom(order, catalog, i + 1)

\* the fallback that keeps the catalog's order
DefaultPromptsCatalogOrder(catalog) == FallbackFrom(EditorOrderCatalog, catalog, 1)

\* [editor_prompts[key] for key in editor_order if key in editor_prompts]
DefaultPrompts(catalog) == FallbackFrom(editor_order, catalog, 1)

\* `if not selected_prompts:` and its assignment
\* the fallback taken whatever was selected
WithFallbackAlways(sel, catalog) == DefaultPrompts(catalog)

WithFallback(sel, catalog) ==
    IF sel = << >> THEN DefaultPrompts(catalog) ELSE sel

\* final_prompt that holds every editor's fragment when is_improvement is set
FinalPromptImprovementAll(base, sel, is_imp) ==
    base \o Join(IF is_imp THEN DefaultPrompts(EditorPrompts) ELSE sel)
         \o ValidationSection(is_imp)

\* final_prompt with the validation section put before the fragments
FinalPromptValidationFirst(base, sel, is_imp) ==
    base \o ValidationSection(is_imp) \o Join(sel)

\* final_prompt after `final_prompt += validation_section`
FinalPrompt(base, sel, is_imp) == base \o Join(sel) \o ValidationSection(is_imp)

\* build_editor_system_prompt as a function of its three arguments
build_editor_system_prompt(types, is_imp, index) ==
    LET lst == ToPyList(types)
    IN  IF IsRaise(lst) THEN lst
        ELSE LET got == _collect_selected_prompts(lst.items, EditorPrompts)
             IN  IF IsRaise(got) THEN got
                 ELSE PyStr(FinalPrompt(BasePrompt(is_imp, index),
                                        WithFallback(got.items, EditorPrompts),
                                        is_imp))

----------------------------------------------------------------------------
(* The inputs the callers draw from *)

\* text that is none of the five identifiers
bogus == << "b", "o", "g", "u", "s" >>
bogus2 == << "b", "o", "g", "u", "s", "2" >>
brand_space == << "b", "r", "a", "n", "d", " ", "a", "l", "i", "g", "n", "m", "e", "n", "t" >>
brand_underscore == << "b", "r", "a", "n", "d", "_", "a", "l", "i", "g", "n", "m", "e", "n", "t" >>
brandalignment == << "b", "r", "a", "n", "d", "a", "l", "i", "g", "n", "m", "e", "n", "t" >>
co_py == << "c", "o", " ", "p", "y" >>
copyy == << "c", "o", "p", "y", "y" >>
lin == << "l", "i", "n" >>
lines == << "l", "i", "n", "e", "s" >>
number_text == << "1", "2", "3" >>

OtherWords ==
    { << >>, bogus, bogus2, brand_space, brand_underscore, brandalignment,
      co_py, copyy, lin, lines, number_text }

AllUpper(s) == [i \in DOMAIN s |-> CharUpper(s[i])]
TitleCase(s) == [i \in DOMAIN s |-> IF i = 1 THEN CharUpper(s[i]) ELSE s[i]]
MixedCase(s) == [i \in DOMAIN s |-> IF i % 2 = 0 THEN CharUpper(s[i]) ELSE s[i]]

\* the casings of a lowercase word
Casings(w) == { w, AllUpper(w), TitleCase(w), MixedCase(w) }

\* the runs of whitespace put around a word
Pads == UNION { [1..k -> Whitespace] : k \in 0..MaxPad }

\* values that are no text
NonText ==
    { PyNone, PyInt(0), PyInt(7), PyInt(-1), PyBool(FALSE), PyBool(TRUE),
      PyList(<< >>), PyList(<< PyStr(copy) >>), PyDict(<< >>),
      PyDict(<< PyStr(copy) >>), PyObject }

\* the words whose casing and surrounding-whitespace variants are handed to _normalize_editor_type
Words == valid_types \cup OtherWords

\* the entries of the lists handed to _collect_selected_prompts
CollectEntries ==
    { PyStr(TitleCase(line)), PyStr(line), PyStr(<< " " >> \o AllUpper(line) \o << " " >>),
      PyStr(bogus), PyStr(bogus2), PyStr(copy), PyStr(content),
      PyStr(development), PyStr(brand_alignment) }

\* the example list bogus, copy, bogus2, content
MixedExample == << PyStr(bogus), PyStr(copy), PyStr(bogus2), PyStr(content) >>

\* the catalogs handed to _collect_selected_prompts: the builder's and parts of it
Catalogs ==
    { [k \in K |-> EditorPrompts[k]] :
        K \in { valid_types, valid_types \ { copy }, { line, development } } }

\* the entries of the lists handed to build_editor_system_prompt
BuilderEntries ==
    { PyStr(copy), PyStr(AllUpper(copy)), PyStr(<< " " >> \o TitleCase(line) \o << "\n" >>),
      PyStr(brand_alignment), PyStr(bogus), PyNone, PyInt(7),
      PyList(<< PyStr(copy) >>) }

\* the example list copy, COPY, line
CopyExample == << PyStr(copy), PyStr(AllUpper(copy)), PyStr(line) >>

\* the explicit request for every editor, in the fallback's order
FiveExample ==
    << PyStr(brand_alignment), PyStr(copy), PyStr(line), PyStr(content), PyStr(development) >>

\* the editor_types handed to build_editor_system_prompt by concurrent callers
ConcTypes ==
    { PyNone, PyList(<< >>), PyList(FiveExample), PyList(CopyExample),
      PyList(<< PyStr(bogus), PyInt(7) >>),
      PyList(<< PyStr(<< " " >> \o TitleCase(line) \o << "\n" >>), PyStr(copy) >>) }

\* the editor_index handed to build_editor_system_prompt by concurrent callers
ConcIndexes == { 0, 1 }

\* the editor_types handed to build_editor_system_prompt that are no list
BuilderNonLists == { PyNone, PyStr(copy), PyStr(brand_alignment), PyStr(<< >>) }

\* the editor_index values: zero, its two neighbours and the extremes
Indexes == { 0 - MaxIndex, -1, 0, 1, MaxIndex }

Procs == { "t1", "t2" }

----------------------------------------------------------------------------
(* The state machine *)

Init ==
    /\ pc = [p \in Procs |-> "idle"]
    /\ top = [p \in Procs |-> "none"]
    /\ caller_types = [p \in Procs |-> PyNone]
    /\ editor_types = [p \in Procs |-> PyNone]
    /\ is_improvement = [p \in Procs |-> FALSE]
    /\ editor_index = [p \in Procs |-> 0]
    /\ editor_prompts = [p \in Procs |-> << >>]
    /\ base_prompt = [p \in Procs |-> << >>]
    /\ pos = [p \in Procs |-> 0]
    /\ selected = [p \in Procs |-> << >>]
    /\ seen_types = [p \in Procs |-> {}]
    /\ selected_prompts = [p \in Procs |-> << >>]
    /\ final_prompt = [p \in Procs |-> << >>]
    /\ editor_type = [p \in Procs |-> PyNone]
    /\ ret = [p \in Procs |-> PyNone]

\* _normalize_editor_type(value), from the call to the return
NormalizeOn(p, value) ==
    /\ editor_type' = [editor_type EXCEPT ![p] = value]
    /\ ret' = [ret EXCEPT ![p] = _normalize_editor_type(value)]

\* a caller invokes _normalize_editor_type on a value that is no text, or on a
\* word in some casing with whitespace around it: the whole function
NormalizeCall(p) ==
    /\ pc[p] = "idle"
    /\ \/ \E value \in NonText : NormalizeOn(p, value)
       \/ \E w \in Words, l \in Pads, r \in Pads :
             \E c \in Casings(w) : NormalizeOn(p, PyStr(l \o c \o r))
    /\ top' = [top EXCEPT ![p] = "normalize"]
    /\ pc' = [pc EXCEPT ![p] = IF IsRaise(ret'[p]) THEN "raised" ELSE "done"]
    /\ UNCHANGED << caller_types, editor_types, is_improvement, editor_index,
                    editor_prompts, base_prompt, pos, selected, seen_types,
                    selected_prompts, final_prompt >>

\* the list a caller hands to _collect_selected_prompts
CollectOn(p, items) ==
    /\ caller_types' = [caller_types EXCEPT ![p] = PyList(items)]
    /\ editor_types' = [editor_types EXCEPT ![p] = PyList(items)]

\* a caller invokes _collect_selected_prompts on some list and catalog: selected = [], seen_types = set()
CollectCall(p) ==
    /\ pc[p] = "idle"
    /\ \E catalog \in Catalogs :
          /\ editor_prompts' = [editor_prompts EXCEPT ![p] = catalog]
          /\ \/ \E k \in 0..MaxCollect :
                   \E items \in [1..k -> CollectEntries] : CollectOn(p, items)
             \/ CollectOn(p, MixedExample)
    /\ top' = [top EXCEPT ![p] = "collect"]
    /\ selected' = [selected EXCEPT ![p] = << >>]
    /\ seen_types' = [seen_types EXCEPT ![p] = {}]
    /\ pos' = [pos EXCEPT ![p] = 1]
    /\ pc' = [pc EXCEPT ![p] = "loop"]
    /\ UNCHANGED << is_improvement, editor_index, base_prompt, selected_prompts,
                    final_prompt, editor_type, ret >>

\* the editor_types a caller hands to build_editor_system_prompt
BuildOn(p, types) ==
    /\ caller_types' = [caller_types EXCEPT ![p] = types]
    /\ editor_types' = [editor_types EXCEPT ![p] = types]

\* a caller invokes build_editor_system_prompt on some editor_types and flags
BuildCall(p) ==
    /\ pc[p] = "idle"
    /\ \E is_imp \in BOOLEAN, index \in Indexes :
          /\ is_improvement' = [is_improvement EXCEPT ![p] = is_imp]
          /\ editor_index' = [editor_index EXCEPT ![p] = index]
    /\ \/ \E types \in BuilderNonLists : BuildOn(p, types)
       \/ \E k \in 0..MaxTypes :
             \E items \in [1..k -> BuilderEntries] : BuildOn(p, PyList(items))
       \/ BuildOn(p, PyList(CopyExample))
    /\ top' = [top EXCEPT ![p] = "build"]
    /\ pc' = [pc EXCEPT ![p] = "base"]
    /\ UNCHANGED << editor_prompts, base_prompt, pos, selected, seen_types,
                    selected_prompts, final_prompt, editor_type, ret >>

\* one of several concurrent callers invokes build_editor_system_prompt
ConcBuildCall(p) ==
    /\ pc[p] = "idle"
    /\ \E types \in ConcTypes, is_imp \in BOOLEAN, index \in ConcIndexes :
          /\ BuildOn(p, types)
          /\ is_improvement' = [is_improvement EXCEPT ![p] = is_imp]
          /\ editor_index' = [editor_index EXCEPT ![p] = index]
    /\ top' = [top EXCEPT ![p] = "build"]
    /\ pc' = [pc EXCEPT ![p] = "base"]
    /\ UNCHANGED << editor_prompts, base_prompt, pos, selected, seen_types,
                    selected_prompts, final_prompt, editor_type, ret >>

\* the builder computes the context blocks, base_prompt and the catalog
BuildBase(p) ==
    /\ pc[p] = "base"
    /\ base_prompt' = [base_prompt EXCEPT ![p] = BasePrompt(is_improvement[p], editor_index[p])]
    /\ editor_prompts' = [editor_prompts EXCEPT ![p] = EditorPrompts]
    /\ pc' = [pc EXCEPT ![p] = "tolist"]
    /\ UNCHANGED << top, caller_types, editor_types, is_improvement, editor_index, pos, selected,
                    seen_types, selected_prompts, final_prompt, editor_type, ret >>

\* editor_types = list(editor_types) if editor_types else [], then the collector is entered
ToList(p) ==
    /\ pc[p] = "tolist"
    /\ LET lst == ToPyList(editor_types[p])
       IN  IF IsRaise(lst)
           THEN /\ ret' = [ret EXCEPT ![p] = lst]
                /\ pc' = [pc EXCEPT ![p] = "raised"]
                /\ UNCHANGED << editor_types, selected, seen_types, pos >>
           ELSE /\ editor_types' = [editor_types EXCEPT ![p] = lst]
                /\ selected' = [selected EXCEPT ![p] = << >>]
                /\ seen_types' = [seen_types EXCEPT ![p] = {}]
                /\ pos' = [pos EXCEPT ![p] = 1]
                /\ pc' = [pc EXCEPT ![p] = "loop"]
                /\ UNCHANGED ret
    /\ UNCHANGED << top, caller_types, is_improvement, editor_index, editor_prompts, base_prompt,
                    selected_prompts, final_prompt, editor_type >>

\* one iteration that starts over at the first entry after the last one
LoopStepRevisits(p) ==
    /\ pc[p] = "loop"
    /\ pos[p] <= Len(editor_types[p].items)
    /\ LET entry == editor_types[p].items[pos[p]]
           r == LoopBody(entry, editor_prompts[p], selected[p], seen_types[p])
       IN  /\ editor_type' = [editor_type EXCEPT ![p] = entry]
           /\ selected' = [selected EXCEPT ![p] = r.selected]
           /\ seen_types' = [seen_types EXCEPT ![p] = r.seen_types]
           /\ pos' = [pos EXCEPT ![p] =
                         IF pos[p] = Len(editor_types[p].items) THEN 1 ELSE pos[p] + 1]
    /\ UNCHANGED << top, pc, ret, caller_types, editor_types, is_improvement, editor_index,
                    editor_prompts, base_prompt, selected_prompts, final_prompt >>

\* one iteration that stores the normalized entry back into the list it iterates
LoopStepInPlace(p) ==
    /\ pc[p] = "loop"
    /\ pos[p] <= Len(editor_types[p].items)
    /\ LET entry == editor_types[p].items[pos[p]]
           r == LoopBody(entry, editor_prompts[p], selected[p], seen_types[p])
           stored == PyList([editor_types[p].items EXCEPT
                                ![pos[p]] = _normalize_editor_type(entry)])
       IN  /\ editor_type' = [editor_type EXCEPT ![p] = entry]
           /\ editor_types' = [editor_types EXCEPT ![p] = stored]
           /\ caller_types' = [caller_types EXCEPT ![p] =
                                  IF top[p] = "collect" THEN stored ELSE @]
           /\ selected' = [selected EXCEPT ![p] = r.selected]
           /\ seen_types' = [seen_types EXCEPT ![p] = r.seen_types]
           /\ pos' = [pos EXCEPT ![p] = pos[p] + 1]
    /\ UNCHANGED << top, pc, ret, is_improvement, editor_index, editor_prompts,
                    base_prompt, selected_prompts, final_prompt >>

\* one iteration with seen_types kept in one set shared by all invocations
LoopStepSharedSeen(p) ==
    /\ pc[p] = "loop"
    /\ pos[p] <= Len(editor_types[p].items)
    /\ LET entry == editor_types[p].items[pos[p]]
           shared == UNION { seen_types[q] : q \in Procs }
           r == LoopBody(entry, editor_prompts[p], selected[p], shared)
       IN  /\ editor_type' = [editor_type EXCEPT ![p] = entry]
           /\ IF r.raised
              THEN /\ ret' = [ret EXCEPT ![p] = PyRaise("AttributeError")]
                   /\ pc' = [pc EXCEPT ![p] = "raised"]
                   /\ UNCHANGED << selected, seen_types, pos >>
              ELSE /\ selected' = [selected EXCEPT ![p] = r.selected]
                   /\ seen_types' = [seen_types EXCEPT ![p] = r.seen_types]
                   /\ pos' = [pos EXCEPT ![p] = pos[p] + 1]
                   /\ UNCHANGED << pc, ret >>
    /\ UNCHANGED << top, caller_types, editor_types, is_improvement, editor_index, editor_prompts,
                    base_prompt, selected_prompts, final_prompt >>

\* one iteration of `for editor_type in editor_types`
LoopStep(p) ==
    /\ pc[p] = "loop"
    /\ pos[p] <= Len(editor_types[p].items)
    /\ LET entry == editor_types[p].items[pos[p]]
           r == LoopBody(entry, editor_prompts[p], selected[p], seen_types[p])
       IN  /\ editor_type' = [editor_type EXCEPT ![p] = entry]
           /\ IF r.raised
              THEN /\ ret' = [ret EXCEPT ![p] = PyRaise("AttributeError")]
                   /\ pc' = [pc EXCEPT ![p] = "raised"]
                   /\ UNCHANGED << selected, seen_types, pos >>
              ELSE /\ selected' = [selected EXCEPT ![p] = r.selected]
                   /\ seen_types' = [seen_types EXCEPT ![p] = r.seen_types]
                   /\ pos' = [pos EXCEPT ![p] = pos[p] + 1]
                   /\ UNCHANGED << pc, ret >>
    /\ UNCHANGED << top, caller_types, editor_types, is_improvement, editor_index, editor_prompts,
                    base_prompt, selected_prompts, final_prompt >>

\* the loop is exhausted: return selected, to the caller or to the builder
LoopReturn(p) ==
    /\ pc[p] = "loop"
    /\ pos[p] > Len(editor_types[p].items)
    /\ IF top[p] = "collect"
       THEN /\ ret' = [ret EXCEPT ![p] = PyList(selected[p])]
            /\ pc' = [pc EXCEPT ![p] = "done"]
            /\ UNCHANGED selected_prompts
       ELSE /\ selected_prompts' = [selected_prompts EXCEPT ![p] = selected[p]]
            /\ pc' = [pc EXCEPT ![p] = "fallback"]
            /\ UNCHANGED ret
    /\ UNCHANGED << top, caller_types, editor_types, is_improvement, editor_index, editor_prompts,
                    base_prompt, pos, selected, seen_types, final_prompt, editor_type >>

\* if not selected_prompts: all editors in editor_order
Fallback(p) ==
    /\ pc[p] = "fallback"
    /\ selected_prompts' = [selected_prompts EXCEPT ![p] =
                               WithFallback(selected_prompts[p], editor_prompts[p])]
    /\ pc' = [pc EXCEPT ![p] = "assemble"]
    /\ UNCHANGED << top, caller_types, editor_types, is_improvement, editor_index, editor_prompts,
                    base_prompt, pos, selected, seen_types, final_prompt, editor_type,
                    ret >>

\* final_prompt = base_prompt + join, += validation_section, return
Assemble(p) ==
    /\ pc[p] = "assemble"
    /\ final_prompt' = [final_prompt EXCEPT ![p] =
                           FinalPrompt(base_prompt[p], selected_prompts[p], is_improvement[p])]
    /\ ret' = [ret EXCEPT ![p] = PyStr(final_prompt'[p])]
    /\ pc' = [pc EXCEPT ![p] = "done"]
    /\ UNCHANGED << top, caller_types, editor_types, is_improvement, editor_index, editor_prompts,
                    base_prompt, pos, selected, seen_types, selected_prompts,
                    editor_type >>

\* one invocation of build_editor_system_prompt
Next ==
    \/ BuildCall("t1")
    \/ BuildBase("t1")
    \/ ToList("t1")
    \/ LoopStep("t1")
    \/ LoopReturn("t1")
    \/ Fallback("t1")
    \/ Assemble("t1")

Spec == Init /\ [][Next]_vars

\* one invocation of _collect_selected_prompts
NextCollect ==
    \/ CollectCall("t1")
    \/ LoopStep("t1")
    \/ LoopReturn("t1")

SpecCollect == Init /\ [][NextCollect]_vars

\* the for loop has a next entry: the condition under which LoopStep(p) can be taken
LoopStepEnabled(p) == pc[p] = "loop" /\ pos[p] <= Len(editor_types[p].items)

\* a call of _collect_selected_prompts, once made, keeps running: the interpreter
\* executes the next iteration, and the return when the list is exhausted.
\* The second conjunct is weak fairness of LoopStep("t1"), with the condition
\* under which the step can be taken written out.
SpecCollectLive ==
    /\ Init
    /\ [][NextCollect]_vars
    /\ ([]<>(~LoopStepEnabled("t1")) \/ []<><<LoopStep("t1")>>_vars)
    /\ WF_vars(LoopReturn("t1"))

\* one invocation of _normalize_editor_type
NextNormalize == NormalizeCall("t1")

SpecNormalize == Init /\ [][NextNormalize]_vars

\* one invocation of either build_editor_system_prompt or _collect_selected_prompts
NextCalls ==
    \/ BuildCall("t1")
    \/ CollectCall("t1")
    \/ BuildBase("t1")
    \/ ToList("t1")
    \/ LoopStep("t1")
    \/ LoopReturn("t1")
    \/ Fallback("t1")
    \/ Assemble("t1")

SpecCalls == Init /\ [][NextCalls]_vars

\* two invocations of build_editor_system_prompt, their steps interleaved in any order
NextConc ==
    \E p \in Procs :
        \/ ConcBuildCall(p)
        \/ BuildBase(p)
        \/ ToList(p)
        \/ LoopStep(p)
        \/ LoopReturn(p)
        \/ Fallback(p)
        \/ Assemble(p)

SpecConc == Init /\ [][NextConc]_vars

----------------------------------------------------------------------------
(* Vocabulary of the properties *)

\* how often block x occurs in text s
Count(x, s) == Cardinality({ i \in DOMAIN s : s[i] = x })

BuildDone(p) == top[p] = "build" /\ pc[p] = "done"
CollectDone(p) == top[p] = "collect" /\ pc[p] = "done"
NormalizeReturned(p) == top[p] = "normalize" /\ pc[p] \in { "done", "raised" }

AllFive ==
    << "BRAND_ALIGNMENT_EDITOR", "COPY_EDITOR", "LINE_EDITOR", "CONTENT_EDITOR",
       "DEVELOPMENT_EDITOR" >>

\* the fragments of a prompt, in the order they occur in it
RECURSIVE FragmentsIn(_)
FragmentsIn(s) ==
    IF s = << >> THEN << >>
    ELSE (IF Head(s) \in Fragments THEN << Head(s) >> ELSE << >>) \o FragmentsIn(Tail(s))

\* s is word t in some casing, with whitespace around it
IsVariantOf(s, t) ==
    \E a \in 0..Len(s) :
        /\ a + Len(t) <= Len(s)
        /\ \A i \in 1..a : s[i] \in Whitespace
        /\ \A i \in 1..Len(t) : s[a + i] \in { t[i], CharUpper(t[i]) }
        /\ \A i \in (a + Len(t) + 1)..Len(s) : s[i] \in Whitespace

\* an editor_types value that selects nothing: None, or a list of entries that all fail normalization
SelectsNothing(types) ==
    \/ types = PyNone
    \/ /\ types.kind = "list"
       /\ \A i \in DOMAIN types.items : _normalize_editor_type(types.items[i]) = PyNone

\* entry i of items is the first one of its normalized type, and the catalog has the type
FirstOfItsType(items, catalog, i) ==
    LET n == _normalize_editor_type(items[i])
    IN  /\ n # PyNone
        /\ n.chars \in DOMAIN catalog
        /\ \A j \in 1..(i - 1) : _normalize_editor_type(items[j]) # n

----------------------------------------------------------------------------
(* C1 *)

\* C1: when editor_types is None, empty or holds only entries that fail
\* normalization, the builder appends the five fragments in the order
\* brand-alignment, copy, line, content, development, and returns what it
\* returns for None with the same flags.
C1_FallbackAllFive ==
    \A p \in Procs :
        (BuildDone(p) /\ SelectsNothing(caller_types[p])) =>
            /\ selected_prompts[p] = AllFive
            /\ FragmentsIn(final_prompt[p]) = AllFive
            /\ ret[p] = build_editor_system_prompt(PyNone, is_improvement[p], editor_index[p])

\* a call with a non-empty list of invalid entries only has returned the five fragments
C1_Witness ==
    \E p \in Procs :
        /\ BuildDone(p)
        /\ caller_types[p] = PyList(<< PyStr(bogus), PyInt(7) >>)
        /\ FragmentsIn(ret[p].chars) = AllFive

----------------------------------------------------------------------------
(* C2 *)

\* C2: an iteration of the loop appends the entry's fragment if and only if
\* the entry normalizes, its type is a key of the supplied catalog and no
\* earlier entry of the call had that type; otherwise selected is unchanged.
\* So the returned list holds each fragment at most once.
C2_EntryContributesIff ==
    [][\A p \in Procs :
          /\ (pc[p] = "loop" /\ pos'[p] = pos[p] + 1) =>
                LET items == editor_types[p].items
                    i == pos[p]
                IN  IF FirstOfItsType(items, editor_prompts[p], i)
                    THEN selected'[p] =
                            Append(selected[p],
                                   editor_prompts[p][_normalize_editor_type(items[i]).chars])
                    ELSE selected'[p] = selected[p]
          /\ (pc[p] = "loop" /\ pc'[p] = "done") =>
                \A f \in Fragments : Count(f, ret'[p].items) <= 1
      ]_vars

\* Line, line, " LINE " has returned the line fragment once
C2_Witness ==
    \E p \in Procs :
        /\ CollectDone(p)
        /\ caller_types[p] = PyList(<< PyStr(TitleCase(line)), PyStr(line),
                                       PyStr(<< " " >> \o AllUpper(line) \o << " " >>) >>)
        /\ ret[p] = PyList(<< "LINE_EDITOR" >>)

----------------------------------------------------------------------------
(* C3 *)

\* C3: the returned fragments stand in the order of the first occurrence of
\* their types in the input list: the fragment of the k-th first occurrence
\* is the k-th element, whatever the catalog's order and whatever invalid
\* entries lie between.
C3_FirstOccurrenceOrder ==
    \A p \in Procs :
        CollectDone(p) =>
            LET items == caller_types[p].items
                catalog == editor_prompts[p]
                firsts == { i \in DOMAIN items : FirstOfItsType(items, catalog, i) }
            IN  /\ Len(ret[p].items) = Cardinality(firsts)
                /\ \A i \in firsts :
                      ret[p].items[Cardinality({ j \in firsts : j <= i })] =
                          catalog[_normalize_editor_type(items[i]).chars]

\* development, bogus, brand-alignment has returned development's fragment first
C3_Witness ==
    \E p \in Procs :
        /\ CollectDone(p)
        /\ caller_types[p] =
              PyList(<< PyStr(development), PyStr(bogus), PyStr(brand_alignment) >>)
        /\ editor_prompts[p] = EditorPrompts
        /\ ret[p] = PyList(<< "DEVELOPMENT_EDITOR", "BRAND_ALIGNMENT_EDITOR" >>)

\* bogus, copy, bogus2, content has returned copy's fragment, then content's
C3_WitnessMixed ==
    \E p \in Procs :
        /\ CollectDone(p)
        /\ caller_types[p] = PyList(MixedExample)
        /\ ret[p] = PyList(<< "COPY_EDITOR", "CONTENT_EDITOR" >>)

----------------------------------------------------------------------------
(* C4 *)

\* C4: the fragments the builder appends are among the catalog's five and
\* none is appended twice: selected_prompts, once settled, and the
\* returned prompt hold only catalog fragments between the guidelines header
\* and the validation block, each at most once.
C4_FragmentsSubsetOnce ==
    \A p \in Procs :
        /\ (top[p] = "build" /\ pc[p] \in { "assemble", "done" }) =>
              /\ selected_prompts[p] # << >>
              /\ \A i \in DOMAIN selected_prompts[p] : selected_prompts[p][i] \in Fragments
              /\ \A f \in Fragments : Count(f, selected_prompts[p]) <= 1
        /\ BuildDone(p) =>
              /\ \A f \in Fragments : Count(f, ret[p].chars) <= 1
              /\ FragmentsIn(ret[p].chars) = selected_prompts[p]

\* copy, COPY, copy has returned a prompt with the copy fragment once
C4_Witness ==
    \E p \in Procs :
        /\ BuildDone(p)
        /\ caller_types[p] = PyList(<< PyStr(copy), PyStr(AllUpper(copy)), PyStr(copy) >>)
        /\ Count("COPY_EDITOR", ret[p].chars) = 1

----------------------------------------------------------------------------
(* C5 *)

\* C5: for every casing and surrounding-whitespace variant of one of the five
\* identifiers, _normalize_editor_type returns that identifier in lowercase.
C5_VariantsNormalize ==
    \A p \in Procs :
        NormalizeReturned(p) =>
            \A t \in valid_types :
                (editor_type[p].kind = "str" /\ IsVariantOf(editor_type[p].chars, t)) =>
                    ret[p] = PyStr(t)

\* " BRAND-ALIGNMENT\n" has been normalized to brand-alignment
C5_Witness ==
    \E p \in Procs :
        /\ NormalizeReturned(p)
        /\ editor_type[p] = PyStr(<< " " >> \o AllUpper(brand_alignment) \o << "\n" >>)
        /\ ret[p] = PyStr(brand_alignment)

----------------------------------------------------------------------------
(* C6 *)

\* C6: for every string that is no casing or surrounding-whitespace variant
\* of one of the five identifiers, _normalize_editor_type returns None.
C6_OtherTextNoMatch ==
    \A p \in Procs :
        (/\ NormalizeReturned(p)
         /\ editor_type[p].kind = "str"
         /\ \A t \in valid_types : ~IsVariantOf(editor_type[p].chars, t)) =>
            ret[p] = PyNone

\* "Brand Alignment" (a space for the hyphen) has been given no match
C6_Witness ==
    \E p \in Procs :
        /\ NormalizeReturned(p)
        /\ editor_type[p] = PyStr(TitleCase(brand_space))
        /\ ret[p] = PyNone

----------------------------------------------------------------------------
(* C7 *)

\* C7: for every falsy value and every value that is no str,
\* _normalize_editor_type returns None and raises nothing (a string
\* operation on a value that is no str would raise AttributeError).
C7_FalsyAndNonTextNoMatch ==
    \A p \in Procs :
        (/\ NormalizeReturned(p)
         /\ (editor_type[p].kind # "str" \/ editor_type[p].chars = << >>)) =>
            /\ pc[p] = "done"
            /\ ret[p] = PyNone

\* the number 7 has been given no match
C7_Witness ==
    \E p \in Procs :
        /\ NormalizeReturned(p)
        /\ editor_type[p] = PyInt(7)
        /\ pc[p] = "done"
        /\ ret[p] = PyNone

----------------------------------------------------------------------------
(* C8 *)

\* C8: build_editor_system_prompt never raises, and what it returns is a
\* non-empty text, for None, for the empty list and for lists holding
\* unrecognized strings and values that are no strings.
C8_NeverRaisesNonEmpty ==
    \A p \in Procs :
        /\ pc[p] # "raised"
        /\ BuildDone(p) => (ret[p].kind = "str" /\ ret[p].chars # << >>)

\* a list of a number, None and a nested list has been answered with a prompt
C8_Witness ==
    \E p \in Procs :
        /\ BuildDone(p)
        /\ caller_types[p] = PyList(<< PyInt(7), PyNone, PyList(<< PyStr(copy) >>) >>)
        /\ ret[p].kind = "str"
        /\ ret[p].chars # << >>

----------------------------------------------------------------------------
(* C9 *)

\* C9: the returned prompt holds the sequential-processing block if and only
\* if editor_index > 0 (then once), and for a positive editor_index it is
\* the prompt returned for editor_index = 1 with the same other arguments.
C9_SequentialIffPositive ==
    \A p \in Procs :
        BuildDone(p) =>
            /\ Count("SEQUENTIAL_PROCESSING_CONTEXT", ret[p].chars) =
                  (IF editor_index[p] > 0 THEN 1 ELSE 0)
            /\ editor_index[p] > 0 =>
                  ret[p] = build_editor_system_prompt(caller_types[p], is_improvement[p], 1)

\* a call with editor_index = 2 has returned a prompt with the block
C9_Witness ==
    \E p \in Procs :
        /\ BuildDone(p)
        /\ editor_index[p] = 2
        /\ Count("SEQUENTIAL_PROCESSING_CONTEXT", ret[p].chars) = 1

----------------------------------------------------------------------------
(* C10 *)

\* the blocks that may directly follow the introduction when there is no improvement block
AfterIntroduction == { "SEQUENTIAL_PROCESSING_CONTEXT", "PROCESSING_REQUIREMENTS" }

\* C10: the returned prompt holds the improvement-iteration context block if
\* and only if is_improvement is set (then once, right after the
\* introduction); when it is not set nothing stands in its place: the
\* introduction is directly followed by the next block.
C10_ImprovementIffFlag ==
    \A p \in Procs :
        BuildDone(p) =>
            /\ ret[p].chars[1] = "INTRODUCTION"
            /\ Count("IMPROVEMENT_ITERATION_CONTEXT", ret[p].chars) =
                  (IF is_improvement[p] THEN 1 ELSE 0)
            /\ IF is_improvement[p]
               THEN ret[p].chars[2] = "IMPROVEMENT_ITERATION_CONTEXT"
               ELSE ret[p].chars[2] \in AfterIntroduction

\* a call without the flag has returned a prompt whose introduction is followed by the requirements
C10_Witness ==
    \E p \in Procs :
        /\ BuildDone(p)
        /\ ~is_improvement[p]
        /\ editor_index[p] = 0
        /\ ret[p].chars[2] = "PROCESSING_REQUIREMENTS"

----------------------------------------------------------------------------
(* C11 *)

\* a is b with some elements left out: the elements of a occur in b in the same order
RECURSIVE IsSubseq(_, _)
IsSubseq(a, b) ==
    IF a = << >> THEN TRUE
    ELSE IF b = << >> THEN FALSE
    ELSE IF Head(a) = Head(b) THEN IsSubseq(Tail(a), Tail(b))
    ELSE IsSubseq(a, Tail(b))

StepNotes == { "STEP_1a", "STEP_2a", "STEP_3a", "STEP_4a", "STEP_5a" }

\* the blocks that belong to the improvement iteration
ImprovementBlocks ==
    { "IMPROVEMENT_ITERATION_CONTEXT" } \cup StepNotes
    \cup { ImprovementChecks[i] : i \in DOMAIN ImprovementChecks }

\* two finished calls that differ in is_improvement only: p without the flag, q with it
FlagOnlyDiffers(p, q) ==
    /\ BuildDone(p)
    /\ BuildDone(q)
    /\ caller_types[p] = caller_types[q]
    /\ editor_index[p] = editor_index[q]
    /\ ~is_improvement[p]
    /\ is_improvement[q]

\* C11: for the same editor_types and editor_index, every block of the prompt
\* returned without is_improvement occurs, in the same relative order, in
\* the prompt returned with it; the prompt with the flag holds each
\* improvement block once in addition and nothing else.
C11_FlagOnlyAdds ==
    \A p, q \in Procs :
        FlagOnlyDiffers(p, q) =>
            /\ IsSubseq(ret[p].chars, ret[q].chars)
            /\ \A b \in ImprovementBlocks :
                  Count(b, ret[p].chars) = 0 /\ Count(b, ret[q].chars) = 1
            /\ Len(ret[q].chars) = Len(ret[p].chars) + Cardinality(ImprovementBlocks)

\* copy, COPY, line has been answered without the flag and with it
C11_Witness ==
    \E p, q \in Procs :
        /\ FlagOnlyDiffers(p, q)
        /\ caller_types[p] = PyList(CopyExample)
        /\ Count("COPY_EDITOR", ret[q].chars) = 1
        /\ Count("STEP_3a", ret[q].chars) = 1

----------------------------------------------------------------------------
(* C12 *)

\* the part of text s from the first occurrence of block b on
FromBlock(s, b) ==
    IF Count(b, s) = 0 THEN << >>
    ELSE SubSeq(s, CHOOSE i \in DOMAIN s : s[i] = b /\ \A j \in 1..(i - 1) : s[j] # b, Len(s))

\* C12: every returned prompt ends with the validation block: its header, then
\* the four improvement checks if and only if is_improvement is set, then
\* the seven checks that are always there.
C12_EndsWithValidation ==
    \A p \in Procs :
        BuildDone(p) =>
            LET tail == FromBlock(ret[p].chars, "VALIDATION")
            IN  /\ Count("VALIDATION", ret[p].chars) = 1
                /\ SubSeq(tail, Len(tail) - Len(BaseChecks) + 1, Len(tail)) = BaseChecks
                /\ \A i \in DOMAIN BaseChecks : Count(BaseChecks[i], ret[p].chars) = 1
                /\ \A i \in DOMAIN ImprovementChecks :
                      Count(ImprovementChecks[i], tail) = (IF is_improvement[p] THEN 1 ELSE 0)
                /\ Len(tail) = 1 + Len(BaseChecks)
                               + (IF is_improvement[p] THEN Len(ImprovementChecks) ELSE 0)

\* a call with is_improvement set has returned a prompt that ends with all eleven checks
C12_Witness ==
    \E p \in Procs :
        /\ BuildDone(p)
        /\ is_improvement[p]
        /\ FromBlock(ret[p].chars, "VALIDATION") =
              << "VALIDATION" >> \o ImprovementChecks \o BaseChecks

----------------------------------------------------------------------------
(* C13 *)

\* what the entries of the list types normalize to
RequestedTypes(types) ==
    { _normalize_editor_type(types.items[i]) : i \in DOMAIN types.items }

\* C13: when the list holds at least one valid entry the fallback is not
\* taken: the prompt holds the fragment of every requested type exactly once
\* and the fragment of no type that was not requested.
C13_RequestedExactlyOnce ==
    \A p \in Procs :
        (/\ BuildDone(p)
         /\ caller_types[p].kind = "list"
         /\ ~SelectsNothing(caller_types[p])) =>
            LET requested == RequestedTypes(caller_types[p])
                frags == FragmentsIn(ret[p].chars)
            IN  /\ selected_prompts[p] = selected[p]
                /\ \A t \in valid_types :
                      Count(EditorPrompts[t], frags) = (IF PyStr(t) \in requested THEN 1 ELSE 0)

\* copy, COPY, line with is_improvement False and editor_index 0 has returned
\* the copy fragment, then the line fragment, and no context block
C13_Witness ==
    \E p \in Procs :
        /\ BuildDone(p)
        /\ caller_types[p] = PyList(CopyExample)
        /\ ~is_improvement[p]
        /\ editor_index[p] = 0
        /\ FragmentsIn(ret[p].chars) = << "COPY_EDITOR", "LINE_EDITOR" >>
        /\ Count("IMPROVEMENT_ITERATION_CONTEXT", ret[p].chars) = 0
        /\ Count("SEQUENTIAL_PROCESSING_CONTEXT", ret[p].chars) = 0

----------------------------------------------------------------------------
(* C14 *)

\* two invocations were given the same three arguments
SameArguments(p, q) ==
    /\ caller_types[p] = caller_types[q]
    /\ is_improvement[p] = is_improvement[q]
    /\ editor_index[p] = editor_index[q]

\* C14: two calls of the builder with the same arguments return the same
\* prompt, in whatever order the two calls run.
C14_SameInputsSameOutput ==
    \A p, q \in Procs :
        (BuildDone(p) /\ BuildDone(q) /\ SameArguments(p, q)) => ret[p] = ret[q]

\* two calls with copy, COPY, line and is_improvement set have both returned
C14_Witness ==
    \E p, q \in Procs :
        /\ p # q
        /\ BuildDone(p)
        /\ BuildDone(q)
        /\ SameArguments(p, q)
        /\ caller_types[p] = PyList(CopyExample)
        /\ is_improvement[p]
        /\ ret[q].chars # << >>

----------------------------------------------------------------------------
(* C15 *)

\* the builder's invocation p has built its catalog
CatalogBuilt(p) ==
    top[p] = "build" /\ pc[p] \in { "tolist", "loop", "fallback", "assemble", "done", "raised" }

\* C15: no step of a running call changes the caller's editor_types; no step
\* of _collect_selected_prompts changes the list it was handed or the
\* catalog it was handed; and the builder's catalog, once built, is the
\* same five keys and fragments in every call.
C15_NoSideEffects ==
    [][\A p \in Procs :
          /\ pc[p] # "idle" => caller_types'[p] = caller_types[p]
          /\ (pc[p] # "idle" /\ top[p] = "collect") =>
                /\ editor_types'[p] = editor_types[p]
                /\ editor_types'[p] = caller_types'[p]
                /\ editor_prompts'[p] = editor_prompts[p]
          /\ CatalogBuilt(p)' =>
                /\ editor_prompts'[p] = EditorPrompts
                /\ DOMAIN editor_prompts'[p] = valid_types
      ]_vars

\* _collect_selected_prompts has returned for bogus, copy, bogus2, content and a
\* catalog without copy, and list and catalog are as they were handed over
C15_Witness ==
    \E p \in Procs :
        /\ CollectDone(p)
        /\ caller_types[p] = PyList(MixedExample)
        /\ editor_types[p] = PyList(MixedExample)
        /\ DOMAIN editor_prompts[p] = valid_types \ { copy }
        /\ ret[p] = PyList(<< "CONTENT_EDITOR" >>)

----------------------------------------------------------------------------
(* C16 *)

\* the selection invocation p would make if it ran alone
AloneSelection(p) ==
    _collect_selected_prompts(ToPyList(caller_types[p]).items, EditorPrompts).items

\* C16: with two invocations of the builder running at once, their steps
\* interleaved in any order, neither raises, each one's selection is at
\* every step a prefix of the selection it makes when it runs alone, and
\* each returns the prompt it returns when it runs alone.
C16_Reentrant ==
    \A p \in Procs :
        /\ pc[p] # "raised"
        /\ (top[p] = "build" /\ pc[p] = "loop") =>
              /\ Len(selected[p]) <= Len(AloneSelection(p))
              /\ selected[p] = SubSeq(AloneSelection(p), 1, Len(selected[p]))
        /\ (top[p] = "build" /\ pc[p] \in { "fallback", "assemble", "done" }) =>
              selected[p] = AloneSelection(p)
        /\ BuildDone(p) =>
              ret[p] = build_editor_system_prompt(caller_types[p], is_improvement[p],
                                                  editor_index[p])

\* one invocation has returned copy's and line's fragments while the other, also
\* asked for copy, is in the middle of its loop with copy already seen
C16_Witness ==
    \E p, q \in Procs :
        /\ p # q
        /\ BuildDone(p)
        /\ FragmentsIn(ret[p].chars) = << "COPY_EDITOR", "LINE_EDITOR" >>
        /\ pc[q] = "loop"
        /\ pos[q] = 2
        /\ copy \in seen_types[q]
        /\ selected[q] = << "COPY_EDITOR" >>

----------------------------------------------------------------------------
(* C17 *)

\* the position of the first occurrence of block b in text s (0 if there is none)
IndexOf(s, b) ==
    IF Count(b, s) = 0 THEN 0
    ELSE CHOOSE i \in DOMAIN s : s[i] = b /\ \A j \in 1..(i - 1) : s[j] # b

\* C17: the returned prompt is the base template up to its editorial-guidelines
\* header, then the selected (or, if none was selected, all five) fragments
\* in sequence, each the catalog's text, with a newline between two of
\* them, then the validation checklist; no fragment stands before the
\* header or from the checklist's header on.
C17_Layout ==
    \A p \in Procs :
        BuildDone(p) =>
            LET text == ret[p].chars
                h == IndexOf(text, "EDITORIAL_GUIDELINES")
                v == IndexOf(text, "VALIDATION")
                frags == IF selected[p] = << >> THEN AllFive ELSE selected[p]
                n == Len(frags)
            IN  /\ 0 < h
                /\ h < v
                /\ text[1] = "INTRODUCTION"
                /\ SubSeq(text, 1, h) = base_prompt[p]
                /\ v - h - 1 = 2 * n - 1
                /\ \A k \in 1..n :
                      /\ text[h + 2 * k - 1] = frags[k]
                      /\ \E t \in valid_types : frags[k] = EditorPrompts[t]
                /\ \A k \in 1..(n - 1) : text[h + 2 * k] = "\n"
                /\ \A i \in DOMAIN text :
                      text[i] \in Fragments => (h < i /\ i < v)
                /\ text[Len(text)] = BaseChecks[Len(BaseChecks)]

\* " Line\n", brand-alignment has returned a prompt with the line fragment right after
\* the header and the brand-alignment fragment right before the checklist
C17_Witness ==
    \E p \in Procs :
        /\ BuildDone(p)
        /\ selected[p] = << "LINE_EDITOR", "BRAND_ALIGNMENT_EDITOR" >>
        /\ LET text == ret[p].chars
           IN  /\ text[IndexOf(text, "EDITORIAL_GUIDELINES") + 1] = "LINE_EDITOR"
               /\ text[IndexOf(text, "VALIDATION") - 1] = "BRAND_ALIGNMENT_EDITOR"

----------------------------------------------------------------------------
(* C18 *)

\* the steps of the processing-steps block and the note of each
Steps ==
    { << "STEP_1", "STEP_1a" >>, << "STEP_2", "STEP_2a" >>, << "STEP_3", "STEP_3a" >>,
      << "STEP_4", "STEP_4a" >>, << "STEP_5", "STEP_5a" >> }

\* C18: every returned prompt holds STEP 1 to STEP 5 once each; with
\* is_improvement set it holds all five notes STEP 1a to 5a, each right
\* after its step, and without it it holds none of them.
C18_StepNotesIffFlag ==
    \A p \in Procs :
        BuildDone(p) =>
            LET text == ret[p].chars
            IN  \A st \in Steps :
                   /\ Count(st[1], text) = 1
                   /\ Count(st[2], text) = (IF is_improvement[p] THEN 1 ELSE 0)
                   /\ is_improvement[p] => text[IndexOf(text, st[1]) + 1] = st[2]

\* a call with is_improvement set has returned a prompt with the note of STEP 5
C18_Witness ==
    \E p \in Procs :
        /\ BuildDone(p)
        /\ is_improvement[p]
        /\ Count("STEP_5a", ret[p].chars) = 1
        /\ Count("STEP_1a", ret[p].chars) = 1

----------------------------------------------------------------------------
(* C19 *)

\* an entry that is no text, or is falsy
Malformed(entry) == entry.kind # "str" \/ entry.chars = << >>

WellFormed(entry) == ~Malformed(entry)

\* C19: for a list that holds malformed entries the builder raises nothing;
\* it selects the fragments of the valid strings in the order of their first
\* occurrence, returns the prompt it returns for the list without the
\* malformed entries, and takes the five-editor fallback only if the loop
\* selected nothing.
C19_MalformedPerElement ==
    \A p \in Procs :
        /\ pc[p] # "raised"
        /\ (/\ BuildDone(p)
            /\ caller_types[p].kind = "list"
            /\ \E i \in DOMAIN caller_types[p].items : Malformed(caller_types[p].items[i])) =>
              LET items == caller_types[p].items
                  firsts == { i \in DOMAIN items : FirstOfItsType(items, EditorPrompts, i) }
              IN  /\ \A i \in firsts : WellFormed(items[i])
                  /\ Len(selected[p]) = Cardinality(firsts)
                  /\ \A i \in firsts :
                        selected[p][Cardinality({ j \in firsts : j <= i })] =
                            EditorPrompts[_normalize_editor_type(items[i]).chars]
                  /\ ret[p] = build_editor_system_prompt(PyList(SelectSeq(items, WellFormed)),
                                                         is_improvement[p], editor_index[p])
                  /\ IF selected[p] = << >>
                     THEN FragmentsIn(ret[p].chars) = AllFive
                     ELSE FragmentsIn(ret[p].chars) = selected[p]

\* the list 7, copy, None has returned a prompt with the copy fragment only
C19_Witness ==
    \E p \in Procs :
        /\ BuildDone(p)
        /\ caller_types[p] = PyList(<< PyInt(7), PyStr(copy), PyNone >>)
        /\ FragmentsIn(ret[p].chars) = << "COPY_EDITOR" >>

----------------------------------------------------------------------------
(* C20 *)

\* p was called with None and q with the explicit list of all five, the flags the same
FallbackAndExplicit(p, q) ==
    /\ BuildDone(p)
    /\ BuildDone(q)
    /\ caller_types[p] = PyNone
    /\ caller_types[q] = PyList(FiveExample)
    /\ is_improvement[p] = is_improvement[q]
    /\ editor_index[p] = editor_index[q]

\* C20: for every is_improvement and editor_index, the call with None and
\* the call with the list brand-alignment, copy, line, content,
\* development return the same text.
C20_FallbackLikeExplicit ==
    \A p, q \in Procs : FallbackAndExplicit(p, q) => ret[p] = ret[q]

\* both calls have returned with is_improvement set and editor_index 1: the
\* first took the fallback, the second selected the five in its loop
C20_Witness ==
    \E p, q \in Procs :
        /\ FallbackAndExplicit(p, q)
        /\ is_improvement[p]
        /\ editor_index[p] = 1
        /\ selected[p] = << >>
        /\ selected[q] = AllFive
        /\ FragmentsIn(ret[p].chars) = AllFive

----------------------------------------------------------------------------
(* C21 *)

\* the list items without its entry i
RemoveAt(items, i) == SubSeq(items, 1, i - 1) \o SubSeq(items, i + 1, Len(items))

\* entry i of items is noise: it fails normalization, or an earlier entry has its type
IsNoise(items, i) ==
    LET n == _normalize_editor_type(items[i])
    IN  \/ n = PyNone
        \/ \E j \in 1..(i - 1) : _normalize_editor_type(items[j]) = n

\* C21: the prompt returned for a list with a noise entry at some position,
\* an invalid entry or a further occurrence of a type that an earlier
\* entry has, is the prompt returned for the list without that entry and
\* the same flags; entry by entry, so for any number of them.
C21_NoiseInvariant ==
    \A p \in Procs :
        (BuildDone(p) /\ caller_types[p].kind = "list") =>
            \A i \in DOMAIN caller_types[p].items :
                IsNoise(caller_types[p].items, i) =>
                    ret[p] = build_editor_system_prompt(
                                 PyList(RemoveAt(caller_types[p].items, i)),
                                 is_improvement[p], editor_index[p])

\* bogus, copy, COPY has returned what copy alone returns
C21_Witness ==
    \E p \in Procs :
        /\ BuildDone(p)
        /\ caller_types[p] = PyList(<< PyStr(bogus), PyStr(copy), PyStr(AllUpper(copy)) >>)
        /\ IsNoise(caller_types[p].items, 1)
        /\ IsNoise(caller_types[p].items, 3)
        /\ FragmentsIn(ret[p].chars) = << "COPY_EDITOR" >>

----------------------------------------------------------------------------
(* C22 *)

\* the improvement and sequential-processing blocks of text s, in the order they occur
RECURSIVE ContextBlocksIn(_)
ContextBlocksIn(s) ==
    IF s = << >> THEN << >>
    ELSE (IF Head(s) \in { "IMPROVEMENT_ITERATION_CONTEXT", "SEQUENTIAL_PROCESSING_CONTEXT" }
          THEN << Head(s) >> ELSE << >>) \o ContextBlocksIn(Tail(s))

\* C22: of two returned prompts, those for the same editor_types hold the same
\* sequence of fragments whatever the flags, and those for the same
\* is_improvement and editor_index hold the same context blocks whatever
\* the editor_types.
C22_NonInterference ==
    \A p, q \in Procs :
        (BuildDone(p) /\ BuildDone(q)) =>
            /\ caller_types[p] = caller_types[q] =>
                  FragmentsIn(ret[p].chars) = FragmentsIn(ret[q].chars)
            /\ (is_improvement[p] = is_improvement[q] /\ editor_index[p] = editor_index[q]) =>
                  ContextBlocksIn(ret[p].chars) = ContextBlocksIn(ret[q].chars)

\* copy, COPY, line with both flags set and without them, and the fallback with both set
C22_Witness ==
    \E p, q \in Procs :
        /\ BuildDone(p)
        /\ BuildDone(q)
        /\ caller_types[p] = PyList(CopyExample)
        /\ caller_types[q] = PyList(CopyExample)
        /\ is_improvement[p] /\ editor_index[p] = 1
        /\ ~is_improvement[q] /\ editor_index[q] = 0
        /\ FragmentsIn(ret[q].chars) = << "COPY_EDITOR", "LINE_EDITOR" >>
        /\ Len(ContextBlocksIn(ret[p].chars)) = 2

----------------------------------------------------------------------------
(* C23 *)

\* C23: for a negative editor_index the returned prompt holds no
\* sequential-processing block and is the prompt returned for
\* editor_index = 0 with the same editor_types and is_improvement.
C23_NegativeLikeZero ==
    \A p \in Procs :
        (BuildDone(p) /\ editor_index[p] < 0) =>
            /\ Count("SEQUENTIAL_PROCESSING_CONTEXT", ret[p].chars) = 0
            /\ ret[p] = build_editor_system_prompt(caller_types[p], is_improvement[p], 0)

\* a call with editor_index = -2 has returned a prompt without the block
C23_Witness ==
    \E p \in Procs :
        /\ BuildDone(p)
        /\ editor_index[p] = 0 - MaxIndex
        /\ editor_index[p] < -1
        /\ Count("SEQUENTIAL_PROCESSING_CONTEXT", ret[p].chars) = 0

----------------------------------------------------------------------------
(* C24 *)

\* C24: when editor_types is a non-empty string the loop runs over its
\* characters, one entry each, none of them is selected, and the prompt
\* holds the five fragments of the fallback and not just the fragment of
\* the type the string names.
C24_StringSplitsToFallback ==
    \A p \in Procs :
        (/\ top[p] = "build"
         /\ caller_types[p].kind = "str"
         /\ caller_types[p].chars # << >>) =>
            /\ pc[p] \in { "loop", "fallback", "assemble", "done" } =>
                  /\ Len(editor_types[p].items) = Len(caller_types[p].chars)
                  /\ \A i \in DOMAIN editor_types[p].items :
                        editor_types[p].items[i] = PyStr(<< caller_types[p].chars[i] >>)
                  /\ selected[p] = << >>
            /\ pc[p] = "done" => FragmentsIn(ret[p].chars) = AllFive

\* the string copy has been answered with the five fragments
C24_Witness ==
    \E p \in Procs :
        /\ BuildDone(p)
        /\ caller_types[p] = PyStr(copy)
        /\ editor_types[p].items = << PyStr(<< "c" >>), PyStr(<< "o" >>), PyStr(<< "p" >>),
                                      PyStr(<< "y" >>) >>
        /\ FragmentsIn(ret[p].chars) = AllFive

----------------------------------------------------------------------------
(* C25 *)

\* the blocks of a prompt in the order they are to stand in
BlockOrder ==
    << "INTRODUCTION", "IMPROVEMENT_ITERATION_CONTEXT", "SEQUENTIAL_PROCESSING_CONTEXT",
       "PROCESSING_REQUIREMENTS", "STRUCTURE_AND_TITLE_PRESERVATION", "PROCESSING_STEPS",
       "OUTPUT_FORMAT", "EDITORIAL_GUIDELINES", "VALIDATION" >>

\* the blocks that only some prompts hold
ConditionalBlocks == { "IMPROVEMENT_ITERATION_CONTEXT", "SEQUENTIAL_PROCESSING_CONTEXT" }

\* b is one of the blocks of BlockOrder
IsOrderedBlock(b) == \E k \in DOMAIN BlockOrder : BlockOrder[k] = b

\* C25: in every returned prompt each always-present block occurs once, each
\* conditional block at most once (the blocks of the prompt are BlockOrder
\* with some left out), the blocks that occur stand in the order
\* introduction, improvement block, sequential-processing block, processing
\* requirements, structure preservation, processing steps, output format,
\* editorial-guidelines header, validation checklist, and the fragments
\* stand between the last two.
C25_FixedBlockOrder ==
    \A p \in Procs :
        BuildDone(p) =>
            LET text == ret[p].chars
                blocks == SelectSeq(text, IsOrderedBlock)
                h == IndexOf(text, "EDITORIAL_GUIDELINES")
                v == IndexOf(text, "VALIDATION")
            IN  /\ IsSubseq(blocks, BlockOrder)
                /\ \A k \in DOMAIN BlockOrder :
                      BlockOrder[k] \notin ConditionalBlocks =>
                          \E i \in DOMAIN blocks : blocks[i] = BlockOrder[k]
                /\ \A i \in DOMAIN text : text[i] \in Fragments => (h < i /\ i < v)

\* a prompt with both conditional blocks: the improvement block right after the
\* introduction, the sequential-processing block right after it
C25_Witness ==
    \E p \in Procs :
        /\ BuildDone(p)
        /\ is_improvement[p]
        /\ editor_index[p] > 0
        /\ SubSeq(ret[p].chars, 1, 4) =
              << "INTRODUCTION", "IMPROVEMENT_ITERATION_CONTEXT",
                 "SEQUENTIAL_PROCESSING_CONTEXT", "PROCESSING_REQUIREMENTS" >>

----------------------------------------------------------------------------
(* C26 *)

\* invocation p is inside the loop of _collect_selected_prompts
CollectRunning(p) == top[p] = "collect" /\ pc[p] = "loop"

\* C26: a running call of _collect_selected_prompts returns; each of its
\* iterations examines the entry at the current position and moves to the
\* next one, so that at the return every entry was examined once, in input
\* order; and the returned list is no longer than the input list and no
\* longer than the number of catalog keys.
C26_CollectTerminates ==
    /\ \A p \in Procs : CollectRunning(p) ~> CollectDone(p)
    /\ [][\A p \in Procs :
             (CollectRunning(p) /\ CollectRunning(p)') =>
                 /\ pos'[p] = pos[p] + 1
                 /\ editor_type'[p] = caller_types[p].items[pos[p]]
         ]_vars
    /\ [](\A p \in Procs :
             /\ CollectRunning(p) =>
                   (pos[p] >= 1 /\ pos[p] <= Len(caller_types[p].items) + 1)
             /\ CollectDone(p) =>
                   /\ pos[p] = Len(caller_types[p].items) + 1
                   /\ Len(ret[p].items) <= Len(caller_types[p].items)
                   /\ Len(ret[p].items) <= Cardinality(DOMAIN editor_prompts[p]))

\* three entries of three types were examined and the catalog of two keys has
\* bounded the returned list
C26_Witness ==
    \E p \in Procs :
        /\ CollectDone(p)
        /\ caller_types[p] = PyList(<< PyStr(line), PyStr(content), PyStr(development) >>)
        /\ DOMAIN editor_prompts[p] = { line, development }
        /\ pos[p] = 4
        /\ ret[p] = PyList(<< "LINE_EDITOR", "DEVELOPMENT_EDITOR" >>)

----------------------------------------------------------------------------
(* C27 *)

\* seen is the set of the types whose fragments, one each, make up sel
SeenMatches(sel, seen, catalog) ==
    /\ seen \subseteq DOMAIN catalog
    /\ { sel[k] : k \in DOMAIN sel } = { catalog[t] : t \in seen }
    /\ Len(sel) = Cardinality(seen)

\* C27: after every step of a call of _collect_selected_prompts, seen_types
\* is the set of the normalized types whose fragments are in selected and
\* len(selected) is its size; an iteration either leaves both unchanged or
\* adds one new type to seen_types and appends that type's fragment to
\* selected, so neither shrinks and selected is in the order of adding.
C27_SeenTypesMatchSelected ==
    [][\A p \in Procs :
          /\ (CollectRunning(p)' \/ CollectDone(p)') =>
                SeenMatches(selected'[p], seen_types'[p], editor_prompts'[p])
          /\ CollectRunning(p) =>
                \/ /\ seen_types'[p] = seen_types[p]
                   /\ selected'[p] = selected[p]
                \/ \E t \in DOMAIN editor_prompts[p] \ seen_types[p] :
                      /\ seen_types'[p] = seen_types[p] \cup { t }
                      /\ selected'[p] = Append(selected[p], editor_prompts[p][t])
      ]_vars

\* in the middle of a list of three, development and line are seen and their
\* fragments selected in that order
C27_Witness ==
    \E p \in Procs :
        /\ CollectRunning(p)
        /\ Len(caller_types[p].items) = 3
        /\ pos[p] = 3
        /\ seen_types[p] = { development, line }
        /\ selected[p] = << "DEVELOPMENT_EDITOR", "LINE_EDITOR" >>

====
